---- MODULE Spec2Model ----
(***************************************************************************)
(* Model of src/app.py: the question preprocessor                          *)
(* (PromptPreprocessor.process), the smart response engine                 *)
(* (SmartResponseEngine) and the query handler that runs them around the   *)
(* two external services (the executor and the text-generation service).   *)
(*                                                                         *)
(* Text is a sequence of characters.  An ASCII character is the one-letter *)
(* string of itself; a Hangul syllable is the string "k_" followed by its  *)
(* romanisation ("k_cheung" is the syllable of 1층), because string        *)
(* literals are ASCII only.  "circle" is the sign ○ and "emdash" the       *)
(* dash of the closing sentence; neither is a word character.              *)
(***************************************************************************)
EXTENDS Integers, Sequences, FiniteSets, TLC

VARIABLES
  pc,                 \* position of the handler / of process()
  raw_prompt,         \* process(raw_prompt): the question as typed
  prompt,             \* process(): the working text
  conditions,         \* process(): list of condition strings
  selected_columns,   \* process(): list of selected column names
  dimension_columns,  \* process(): list of dimension column names
  device_matches,     \* process(): the equipment codes found by findall
  final,              \* process(): the directive returned
  result,             \* handler: what the executor returned
  df_stats,           \* analyze_dataframe(): list of column statistics
  stats_json,         \* generate_smart_response(): the payload, per column
  stats_df,           \* generate_smart_response(): the statistics table
  insight,            \* generate_smart_response(): narrative or placeholder
  summary_text,       \* generate_smart_response(): the summary returned
  shown,              \* handler: what was rendered last (error, value, report)
  calls               \* handler: the steps of the current question, in order

procVars == <<raw_prompt, prompt, conditions, selected_columns,
              dimension_columns, device_matches, final>>
respVars == <<result, df_stats, stats_json, stats_df, insight, summary_text>>
vars == <<pc, raw_prompt, prompt, conditions, selected_columns,
          dimension_columns, device_matches, final, result, df_stats,
          stats_json, stats_df, insight, summary_text, shown, calls>>

(***************************************************************************)
(* Characters                                                              *)
(***************************************************************************)
UpperSeq == <<"A", "B", "C", "D", "E", "F", "G", "H", "I", "J", "K", "L", "M",
              "N", "O", "P", "Q", "R", "S", "T", "U", "V", "W", "X", "Y", "Z">>
LowerSeq == <<"a", "b", "c", "d", "e", "f", "g", "h", "i", "j", "k", "l", "m",
              "n", "o", "p", "q", "r", "s", "t", "u", "v", "w", "x", "y", "z">>
Upper == {UpperSeq[i] : i \in DOMAIN UpperSeq}
Lower == {LowerSeq[i] : i \in DOMAIN LowerSeq}
Digit == {"0", "1", "2", "3", "4", "5", "6", "7", "8", "9"}

\* The Hangul syllables ([가-힣]) that the program's tables and phrases use.
Hangul ==
  {"k_al", "k_an", "k_bae", "k_bael", "k_ban", "k_bang", "k_beol", "k_beu",
   "k_bi", "k_bo", "k_bu", "k_bun", "k_byeol", "k_cheung", "k_cho",
   "k_chong", "k_da", "k_dae", "k_dan", "k_dang", "k_de", "k_deu", "k_deul",
   "k_do", "k_dwae", "k_e", "k_eo", "k_eol", "k_eop", "k_eu", "k_eul",
   "k_eun", "k_ga", "k_gae", "k_gan", "k_ge", "k_geu", "k_gi", "k_gil",
   "k_gong", "k_gu", "k_gwa", "k_gwan", "k_gye", "k_gyeol", "k_hae", "k_hap",
   "k_hoek", "k_hwa", "k_hwal", "k_i", "k_il", "k_im", "k_in", "k_jak",
   "k_jang", "k_je", "k_jeo", "k_jeon", "k_jeong", "k_ji", "k_jong", "k_jwo",
   "k_kal", "k_ke", "k_keu", "k_kul", "k_ma", "k_mi", "k_mok", "k_mul",
   "k_myeoch", "k_myeong", "k_neun", "k_ni", "k_peom", "k_peu", "k_peul",
   "k_ping", "k_re", "k_reul", "k_ri", "k_ring", "k_ro", "k_rok", "k_ryang",
   "k_ryeo", "k_sa", "k_sang", "k_se", "k_seo", "k_seok", "k_seol", "k_seu",
   "k_si", "k_sik", "k_sil", "k_su", "k_sun", "k_te", "k_teo", "k_teu",
   "k_ti", "k_til", "k_tok", "k_tong", "k_tteoh", "k_ui", "k_wa", "k_wo",
   "k_ya", "k_yeo", "k_yong", "k_yu",
   "k_cha", "k_chul", "k_jip", "k_keol", "k_reom", "k_ryeok", "k_won",
   "k_manh", "k_eum", "k_jeok", "k_dong", "k_jin", "k_haeng", "k_gyo",
   "k_saeng", "k_seong", "k_pae"}

LowerOf == [c \in Upper |-> LowerSeq[CHOOSE i \in DOMAIN UpperSeq : UpperSeq[i] = c]]

\* re.IGNORECASE folds the ASCII letters; Hangul has no case.
ToLower(c) == IF c \in Upper THEN LowerOf[c] ELSE c

IsAlpha(c) == c \in Upper \cup Lower
IsDigit(c) == c \in Digit
\* [A-Za-z0-9]
IsAsciiAlnum(c) == IsAlpha(c) \/ IsDigit(c)
\* [가-힣]
IsHangul(c) == c \in Hangul
\* [가-힣A-Za-z0-9]
IsHanAlnum(c) == IsHangul(c) \/ IsAsciiAlnum(c)
\* \w of a str pattern: letters of any script, digits and the underscore
IsWordChar(c) == IsAsciiAlnum(c) \/ IsHangul(c) \/ c = "_"
\* \s, and what str.strip() strips
IsSpace(c) == c \in {" ", "\t"}

(***************************************************************************)
(* Tables                                                                  *)
(***************************************************************************)
COLUMN_SYNONYMS ==
  << [target |-> <<"k_jang", "k_bi", "k_myeong">>,
      syns |-> <<<<"k_jang", "k_bi">>>>],
     [target |-> <<"U", "T">>,
      syns |-> <<<<"k_gong", "k_jong">>, <<"k_seol", "k_bi">>, <<"k_yu", "k_til", "k_ri", "k_ti">>, <<"u", "t", "i", "l", "i", "t", "y">>>>],
     [target |-> <<"F", "l", "o", "o", "r">>,
      syns |-> <<<<"k_cheung", "k_su">>, <<"k_peul", "k_ro", "k_eo">>>>],
     [target |-> <<"k_sa", "k_jeon", "k_je", "k_jak", "X", "_", "k_bi", "k_dae", "k_sang", "(", "k_il", "k_bu", "k_gong", "k_jeong", ")", "(", "1", ")", "_", "k_gil", "k_i">>,
      syns |-> <<<<"k_bi", "k_dae", "k_sang">>>>],
     [target |-> <<"k_sa", "k_jeon", "k_je", "k_jak", "X", "_", "A", "(", "k_jang", "k_bi", "k_dan", "F", "i", "n", "a", "l", ")", "(", "2", ")", "_", "k_gil", "k_i">>,
      syns |-> <<<<"k_jang", "k_bi", "k_dan">>>>],
     [target |-> <<"k_sa", "k_jeon", "k_je", "k_jak", "circle", "_", "B", "(", "H", "_", "U", "P", "k_gu", "k_gan", ")", "(", "3", ")", "_", "k_dang", "k_cho", "k_gye", "k_hoek", "_", "k_gil", "k_i">>,
      syns |-> <<<<"k_gye", "k_hoek", "k_mul", "k_ryang">>>>],
     [target |-> <<"k_sa", "k_jeon", "k_je", "k_jak", "circle", "_", "B", "(", "H", "_", "U", "P", "k_gu", "k_gan", ")", "(", "4", ")", "_", "k_sil", "k_je", "k_si", "k_gong", "_", "k_gil", "k_i">>,
      syns |-> <<<<"k_si", "k_gong", "k_mul", "k_ryang">>>>],
     [target |-> <<"k_sa", "k_jeon", "k_je", "k_jak", "X", "_", "C", "(", "T", "V", "k_dan", "F", "i", "n", "a", "l", ")", "(", "5", ")", "_", "k_gil", "k_i">>,
      syns |-> <<<<"k_te", "k_ping", "k_bael", "k_beu", "k_dan">>>>],
     [target |-> <<"k_hap", "k_gye", "(", "1", "+", "2", "+", "4", "+", "5", ")">>,
      syns |-> <<<<"k_chong", "k_hap">>>>] >>

VALUE_SYNONYMS ==
  << [target |-> <<"1", "F">>, syns |-> <<<<"1", "k_cheung">>>>],
     [target |-> <<"2", "F">>, syns |-> <<<<"2", "k_cheung">>>>],
     [target |-> <<"3", "F">>, syns |-> <<<<"3", "k_cheung">>>>],
     [target |-> <<"B", "u", "l", "k", " ", "G", "a", "s">>, syns |-> <<<<"k_beol", "k_keu", "k_ga", "k_seu">>, <<"b", "u", "l", "k", " ", "g", "a", "s">>>>],
     [target |-> <<"D", "r", "a", "i", "n">>, syns |-> <<<<"k_deu", "k_re", "k_in">>, <<"d", "r", "a", "i", "n">>>>],
     [target |-> <<"E", "x", "h", "a", "u", "s", "t">>, syns |-> <<<<"k_i", "k_geu", "k_jeo", "k_seu", "k_teu">>, <<"e", "x", "h", "a", "u", "s", "t">>>>],
     [target |-> <<"U", "P", "W", "(", "D", "I", ")">>, syns |-> <<<<"k_cho", "k_sun", "k_su">>>>],
     [target |-> <<"P", "C", "W">>, syns |-> <<<<"k_peu", "k_ro", "k_se", "k_seu", "k_kul", "k_ring", "k_wo", "k_teo">>>>],
     [target |-> <<"N", "P", "W">>, syns |-> <<<<"k_gong", "k_eop", "k_yong", "k_su">>>>],
     [target |-> <<"C", "h", "e", "m", "i", "c", "a", "l">>, syns |-> <<<<"k_ke", "k_mi", "k_kal">>, <<"c", "h", "e", "m", "i", "c", "a", "l">>>>],
     [target |-> <<"P", "u", "m", "p", "i", "n", "g">>, syns |-> <<<<"k_peom", "k_peu">>, <<"p", "u", "m", "p", "i", "n", "g">>>>],
     [target |-> <<"T", "o", "x", "i", "c", " ", "G", "a", "s">>, syns |-> <<<<"k_tok", "k_sik", "k_ga", "k_seu">>, <<"t", "o", "x", "i", "c", " ", "g", "a", "s">>>>] >>

josa_list ==
  <<<<"k_eun">>, <<"k_neun">>, <<"k_i">>, <<"k_ga">>, <<"k_eul">>, <<"k_reul">>, <<"k_ui">>, <<"k_e">>, <<"k_e", "k_seo">>, <<"k_ro">>, <<"k_eu", "k_ro">>, <<"k_wa">>, <<"k_gwa">>, <<"k_do">>>>

ut_exclude == <<<<"k_jang", "k_bi">>, <<"k_jang", "k_bi", "k_deul">>>>

dimension_ut_words == <<<<"U", "T">>, <<"k_gong", "k_jong">>, <<"k_seol", "k_bi">>, <<"k_yu", "k_til", "k_ri", "k_ti">>, <<"u", "t", "i", "l", "i", "t", "y">>>>

dimension_device_words == <<<<"k_jang", "k_bi", "k_myeong">>, <<"k_jang", "k_bi">>>>

dimension_floor_words == <<<<"k_cheung">>, <<"k_cheung", "k_su">>>>

\* the alternation of line 387, in its order
command_patterns ==
  <<<<"k_bo", "k_yeo", "k_jwo">>,
    <<"k_al", "k_ryeo", "k_jwo">>,
    <<"k_gu", "k_hae", "k_jwo">>,
    <<"k_ri", "k_seu", "k_teu", "k_hae", "k_jwo">>,
    <<"k_jeong", "k_ri", "k_hae", "k_jwo">>,
    <<"k_mok", "k_rok", "k_hwa", "k_hae", "k_jwo">>,
    <<"k_hap", "k_eun">>,
    <<"k_chong", "k_hap", "k_eun">>,
    <<"k_hap", "k_gye", "k_neun">>,
    <<"k_chong", "k_ryang", "k_eun">>,
    <<"k_myeoch", "k_i", "k_ya">>,
    <<"k_myeoch", "k_gae", "k_ya">>,
    <<"k_eol", "k_ma", "k_ya">>,
    <<"k_eo", "k_tteoh", "k_ge", " ", "k_dwae">>,
    <<"k_eol", "k_ma", "k_in", "k_ji">>,
    <<"k_gyeol", "k_gwa", "k_neun">>>>

FloorLabels == << <<"1", "F">>, <<"2", "F">>, <<"3", "F">> >>
IdentityColumns == << <<"k_jang", "k_bi", "k_myeong">>, <<"U", "T">>,
                      <<"F", "l", "o", "o", "r">> >>

(***************************************************************************)
(* Pattern matching.  The length of the match of a pattern that starts at  *)
(* position i of text is 0 when there is none (no pattern of the program   *)
(* matches the empty string).                                              *)
(***************************************************************************)
SameChar(a, b, ignorecase) ==
  IF ignorecase THEN ToLower(a) = ToLower(b) ELSE a = b

\* pat occurs in text at position i
LitAt(text, i, pat, ignorecase) ==
  /\ i >= 1
  /\ i + Len(pat) - 1 <= Len(text)
  /\ \A k \in 1..Len(pat) : SameChar(text[i + k - 1], pat[k], ignorecase)

\* \b between text[p-1] and text[p]
WordBoundary(text, p) ==
  LET before == p > 1 /\ p - 1 <= Len(text) /\ IsWordChar(text[p - 1])
      after  == p >= 1 /\ p <= Len(text) /\ IsWordChar(text[p])
  IN  before # after

\* a plain substring (str.replace, "in")
PlainLen(text, i, pat) == IF LitAt(text, i, pat, FALSE) THEN Len(pat) ELSE 0

\* \bpat\b
WordLen(text, i, pat, ignorecase) ==
  IF /\ LitAt(text, i, pat, ignorecase)
     /\ WordBoundary(text, i)
     /\ WordBoundary(text, i + Len(pat))
  THEN Len(pat) ELSE 0

\* (?=[^가-힣A-Za-z0-9]|$) at position p
EdgeAfter(text, p) == p > Len(text) \/ ~IsHanAlnum(text[p])
\* (?<![가-힣A-Za-z0-9]) at position i
EdgeBefore(text, i) == i <= 1 \/ ~IsHanAlnum(text[i - 1])

\* (?<![가-힣A-Za-z0-9])(syn)(?:은|는|...)?(?=[^가-힣A-Za-z0-9]|$): the
\* optional particle is the first one of the list after which the
\* lookahead holds, and no particle when none does
JosaLen(text, i, syn) ==
  IF ~(EdgeBefore(text, i) /\ LitAt(text, i, syn, FALSE)) THEN 0
  ELSE LET p  == i + Len(syn)
           js == {j \in DOMAIN josa_list :
                    /\ LitAt(text, p, josa_list[j], FALSE)
                    /\ EdgeAfter(text, p + Len(josa_list[j]))}
       IN  IF js # {}
           THEN Len(syn) + Len(josa_list[CHOOSE j \in js : \A k \in js : j <= k])
           ELSE IF EdgeAfter(text, p) THEN Len(syn) ELSE 0

\* the number of whitespace characters from position p on
SpaceRun(text, p) ==
  LET stops == {q \in p..(Len(text) + 1) : q > Len(text) \/ ~IsSpace(text[q])}
  IN  (CHOOSE q \in stops : \A r \in stops : q <= r) - p

\* {word}\s*별
DimensionLen(text, i, word, ignorecase) ==
  IF ~LitAt(text, i, word, ignorecase) THEN 0
  ELSE LET p == i + Len(word)
           k == SpaceRun(text, p)
       IN  IF p + k <= Len(text) /\ text[p + k] = "k_byeol"
           THEN Len(word) + k + 1 ELSE 0

\* \b[A-Za-z0-9]{3,}\b: a maximal run of ASCII letters and digits, three or
\* more long, with no word character on either side
RunEnd(text, i) ==
  LET stops == {q \in i..(Len(text) + 1) :
                  q > Len(text) \/ ~IsAsciiAlnum(text[q])}
  IN  CHOOSE q \in stops : \A r \in stops : q <= r
CodeWordLen(text, i) ==
  IF ~(IsAsciiAlnum(text[i]) /\ WordBoundary(text, i)) THEN 0
  ELSE LET e == RunEnd(text, i)
       IN  IF e - i >= 3 /\ WordBoundary(text, e) THEN e - i ELSE 0

\* the first alternative of the list that occurs at position i
AltLen(text, i, alts) ==
  LET hit == {a \in DOMAIN alts : LitAt(text, i, alts[a], FALSE)}
  IN  IF hit = {} THEN 0
      ELSE Len(alts[CHOOSE a \in hit : \A b \in hit : a <= b])

\* str.strip()
Strip(text) ==
  LET keep == {i \in 1..Len(text) : ~IsSpace(text[i])}
  IN  IF keep = {} THEN <<>>
      ELSE SubSeq(text, CHOOSE i \in keep : \A j \in keep : i <= j,
                        CHOOSE i \in keep : \A j \in keep : i >= j)

\* re.sub(r"\s+", " ", text): of every whitespace run its first character
\* stays, as a space
CollapseSpaces(text) ==
  LET kept == SelectSeq([i \in 1..Len(text) |-> i],
                        LAMBDA i : \/ ~IsSpace(text[i])
                                   \/ i = 1
                                   \/ ~IsSpace(text[i - 1]))
  IN  [j \in 1..Len(kept) |->
         IF IsSpace(text[kept[j]]) THEN " " ELSE text[kept[j]]]

\* sep.join(parts)
RECURSIVE Join(_, _)
Join(parts, sep) ==
  IF parts = <<>> THEN <<>>
  ELSE IF Len(parts) = 1 THEN parts[1]
  ELSE parts[1] \o sep \o Join(Tail(parts), sep)


HasHangul(text) == \E i \in 1..Len(text) : IsHangul(text[i])
Contains(text, pat) == \E i \in 1..Len(text) : LitAt(text, i, pat, FALSE)

\* the pattern of a column alias: with Hangul in syn, the custom boundaries
\* and an optional particle; otherwise \bsyn\b, case-insensitive
ColumnRuleLen(text, i, syn) ==
  IF HasHangul(syn) THEN JosaLen(text, i, syn) ELSE WordLen(text, i, syn, TRUE)

\* {first}\s*{second}
PhraseLen(text, i, first, second) ==
  IF ~LitAt(text, i, first, FALSE) THEN 0
  ELSE LET p == i + Len(first)
           k == SpaceRun(text, p)
       IN  IF LitAt(text, p + k, second, FALSE)
           THEN Len(first) + k + Len(second) ELSE 0

\* the match lengths of a pattern at the positions of text
PlainMatches(text, pat) == [i \in 1..Len(text) |-> PlainLen(text, i, pat)]
WordMatches(text, pat, ignorecase) ==
  [i \in 1..Len(text) |-> WordLen(text, i, pat, ignorecase)]
ColumnMatches(text, syn) == [i \in 1..Len(text) |-> ColumnRuleLen(text, i, syn)]
DimensionMatches(text, word, ignorecase) ==
  [i \in 1..Len(text) |-> DimensionLen(text, i, word, ignorecase)]
CodeMatches(text) == [i \in 1..Len(text) |-> CodeWordLen(text, i)]
AltMatches(text, alts) == [i \in 1..Len(text) |-> AltLen(text, i, alts)]
PhraseMatches(text, first, second) ==
  [i \in 1..Len(text) |-> PhraseLen(text, i, first, second)]

\* re.search, on the match lengths m of the pattern
Search(m) == \E i \in DOMAIN m : m[i] > 0

\* the leftmost match at or after position from (0: none)
NextMatch(m, from) ==
  LET hits == {i \in from..Len(m) : m[i] > 0}
  IN  IF hits = {} THEN 0 ELSE CHOOSE i \in hits : \A j \in hits : i <= j

\* re.sub / str.replace: the matches from left to right, not overlapping,
\* each decided on the text as it was before any replacement
Sub(text, m, repl) ==
  LET f[from \in 1..(Len(text) + 1)] ==
        LET i == NextMatch(m, from)
        IN  IF i = 0 THEN SubSeq(text, from, Len(text))
            ELSE SubSeq(text, from, i - 1) \o repl \o f[i + m[i]]
  IN  f[1]

\* re.findall: the matched strings from left to right
FindAll(text, m) ==
  LET f[from \in 1..(Len(text) + 1)] ==
        LET i == NextMatch(m, from)
        IN  IF i = 0 THEN <<>>
            ELSE <<SubSeq(text, i, i + m[i] - 1)>> \o f[i + m[i]]
  IN  f[1]

(***************************************************************************)
(* PromptPreprocessor                                                      *)
(***************************************************************************)
Jangbi       == <<"k_jang", "k_bi">>
Equipment    == <<"e", "q", "u", "i", "p", "m", "e", "n", "t">>
Baegwan      == <<"k_bae", "k_gwan">>
Utility      == <<"k_yu", "k_til", "k_ri", "k_ti">>
Mullyang     == <<"k_mul", "k_ryang">>
Mullyangdeul == <<"k_mul", "k_ryang", "k_deul">>
StandardCommand ==
  <<" ", "k_de", "k_i", "k_teo", "k_peu", "k_re", "k_im", "k_eu", "k_ro", " ",
    "k_bo", "k_yeo", "k_jwo">>

FloorField  == <<"F", "l", "o", "o", "r">>
UTField     == <<"U", "T">>
DeviceField == <<"k_jang", "k_bi", "k_myeong">>

\* f'({field} == "{value}")'
Cond(field, value) ==
  <<"(">> \o field \o <<" ", "=", "=", " ", "\"">> \o value \o <<"\"", ")">>

\* str(list) of a list of strings: ['a', 'b']
PyList(list) ==
  <<"[">> \o Join([i \in DOMAIN list |-> <<"'">> \o list[i] \o <<"'">>],
                  <<",", " ">>) \o <<"]">>

RECURSIVE Flatten(_)
Flatten(seqs) == IF seqs = <<>> THEN <<>> ELSE Head(seqs) \o Flatten(Tail(seqs))

\* the (syn, target) pairs in the order the two nested loops visit them
ColumnRules ==
  Flatten([e \in DOMAIN COLUMN_SYNONYMS |->
            LET c == COLUMN_SYNONYMS[e]
                names == c.syns \o <<c.target>>
            IN  [k \in DOMAIN names |-> [syn |-> names[k], target |-> c.target]]])
ValueRules ==
  Flatten([e \in DOMAIN VALUE_SYNONYMS |->
            LET v == VALUE_SYNONYMS[e]
            IN  [k \in DOMAIN v.syns |-> [syn |-> v.syns[k], target |-> v.target]]])

\* lines 273-286, from pair k on
RECURSIVE ColumnLoop(_, _)
ColumnLoop(text, k) ==
  IF k > Len(ColumnRules) THEN text
  ELSE LET r == ColumnRules[k]
       IN  IF Search(ColumnMatches(text, r.syn))
           THEN ColumnLoop(Sub(text, ColumnMatches(text, r.syn),
                               r.target), k + 1)
           ELSE ColumnLoop(text, k + 1)

normalize_column_words(text) == ColumnLoop(text, 1)

\* lines 312-316, from pair k on
RECURSIVE ValueLoop(_, _)
ValueLoop(text, k) ==
  IF k > Len(ValueRules) THEN text
  ELSE LET r == ValueRules[k]
       IN  IF Search(WordMatches(text, r.syn, TRUE))
           THEN ValueLoop(Sub(text, WordMatches(text, r.syn, TRUE),
                              r.target), k + 1)
           ELSE ValueLoop(text, k + 1)

\* lines 297-319: placeholder, column aliases, value aliases, two rewrites
SubstituteSynonyms(raw) ==
  LET p0 == Strip(raw)
      p1 == Sub(p0, WordMatches(p0, Jangbi, FALSE), Equipment)
      p2 == normalize_column_words(p1)
      p3 == ValueLoop(p2, 1)
      p4 == Sub(p3, WordMatches(p3, Baegwan, FALSE), Utility)
  IN  Sub(p4, WordMatches(p4, Mullyang, FALSE), Mullyangdeul)

\* the first trigger word of the list that the raw question holds before
\* the cue, case-insensitively (0: none)
DimensionWord(words, raw) ==
  LET hit == {w \in DOMAIN words :
                Search(DimensionMatches(raw, words[w], TRUE))}
  IN  IF hit = {} THEN 0 ELSE CHOOSE w \in hit : \A v \in hit : w <= v

\* one of the three loops of lines 325-341 on the working text
RemoveDimension(words, raw, text) ==
  LET w == DimensionWord(words, raw)
  IN  IF w = 0 THEN text
      ELSE Sub(text, DimensionMatches(text, words[w], FALSE), <<>>)

\* a faulty variant: the loops without their break, a column for every
\* trigger word found
DetectedDimensions_NoBreak(raw) ==
  LET found(words, column) ==
        [k \in 1..Cardinality({w \in DOMAIN words :
                                  Search(DimensionMatches(raw, words[w], TRUE))})
           |-> column]
  IN  found(dimension_ut_words, UTField)
      \o found(dimension_device_words, DeviceField)
      \o found(dimension_floor_words, FloorField)

\* lines 325-341: the columns of the three loops, in their order
DetectedDimensions(raw) ==
     (IF DimensionWord(dimension_ut_words, raw) # 0 THEN <<UTField>> ELSE <<>>)
  \o (IF DimensionWord(dimension_device_words, raw) # 0 THEN <<DeviceField>> ELSE <<>>)
  \o (IF DimensionWord(dimension_floor_words, raw) # 0 THEN <<FloorField>> ELSE <<>>)

\* lines 347-350, from label k on; st is [prompt, conditions]
RECURSIVE FloorLoop(_, _)
FloorLoop(st, k) ==
  IF k > Len(FloorLabels) THEN st
  ELSE LET fl == FloorLabels[k]
       IN  IF Search(WordMatches(st.prompt, fl, FALSE))
           THEN FloorLoop([prompt |-> Sub(st.prompt,
                                          WordMatches(st.prompt, fl, FALSE), <<>>),
                           conditions |-> Append(st.conditions, Cond(FloorField, fl))],
                          k + 1)
           ELSE FloorLoop(st, k + 1)

\* rf"\b{val}\b" is built without re.escape: a parenthesis of the value
\* opens or closes a group and matches nothing itself
ValuePattern(val) == SelectSeq(val, LAMBDA c : c \notin {"(", ")"})

InSeq(x, s) == \E i \in DOMAIN s : s[i] = x

\* lines 352-356, from value k on
RECURSIVE UtLoop(_, _)
UtLoop(st, k) ==
  IF k > Len(VALUE_SYNONYMS) THEN st
  ELSE LET val == VALUE_SYNONYMS[k].target
           pat == ValuePattern(val)
       IN  IF /\ ~InSeq(val, FloorLabels)
              /\ ~InSeq(val, ut_exclude)
              /\ Search(WordMatches(st.prompt, pat, FALSE))
           THEN UtLoop([prompt |-> Sub(st.prompt,
                                       WordMatches(st.prompt, pat, FALSE), <<>>),
                        conditions |-> Append(st.conditions, Cond(UTField, val))],
                       k + 1)
           ELSE UtLoop(st, k + 1)

\* a faulty variant: a code found before is not listed again
DeviceMatches_Distinct(text) ==
  LET all == SelectSeq(FindAll(text, CodeMatches(text)),
                       LAMBDA word : /\ \E i \in DOMAIN word : IsAlpha(word[i])
                                     /\ \E i \in DOMAIN word : IsDigit(word[i]))
      first == {k \in DOMAIN all : \A j \in 1..(k - 1) : all[j] # all[k]}
  IN  [n \in 1..Cardinality(first) |->
         all[CHOOSE k \in first : Cardinality({j \in first : j < k}) = n - 1]]

\* lines 358-361
DeviceMatches(text) ==
  SelectSeq(FindAll(text, CodeMatches(text)),
            LAMBDA word : /\ \E i \in DOMAIN word : IsAlpha(word[i])
                          /\ \E i \in DOMAIN word : IsDigit(word[i]))

\* lines 363-365, from code k on
RECURSIVE DeviceLoop(_, _, _)
DeviceLoop(st, devs, k) ==
  IF k > Len(devs) THEN st
  ELSE DeviceLoop([prompt |-> Sub(st.prompt,
                                  PlainMatches(st.prompt, devs[k]), <<>>),
                   conditions |-> Append(st.conditions, Cond(DeviceField, devs[k]))],
                  devs, k + 1)

\* lines 371-374, from column k on; st is [prompt, selected]
RECURSIVE SelectLoop(_, _)
SelectLoop(st, k) ==
  IF k > Len(COLUMN_SYNONYMS) THEN st
  ELSE LET col == COLUMN_SYNONYMS[k].target
       IN  IF Contains(st.prompt, col)
           THEN SelectLoop([prompt |-> Sub(st.prompt,
                                           PlainMatches(st.prompt, col), <<>>),
                            selected |-> Append(st.selected, col)],
                           k + 1)
           ELSE SelectLoop(st, k + 1)

\* len(re.sub(r"[^가-힣]", "", prompt))
KoreanCount(text) == Cardinality({i \in 1..Len(text) : IsHangul(text[i])})

\* lines 381-391
StandardizeCommand(text) ==
  IF KoreanCount(text) >= 2
  THEN Strip(Sub(text, AltMatches(text, command_patterns), <<>>))
       \o StandardCommand
  ELSE text

OutputLabel    == <<"k_chul", "k_ryeok", "k_keol", "k_reom">>
DimensionLabel == <<"k_cha", "k_won", "k_keol", "k_reom">>
Aggregation    == <<"k_jip", "k_gye", "k_bang", "k_sik", " ", "=", " ",
                    "'", "s", "u", "m", "'">>

\* lines 397-405
FinalParts(conds, selected, dims, text) ==
     (IF conds # <<>> THEN <<Join(conds, <<" ", "A", "N", "D", " ">>)>> ELSE <<>>)
  \o (IF selected # <<>>
      THEN <<OutputLabel \o <<" ", "=", " ">> \o PyList(IdentityColumns \o selected)>>
      ELSE <<>>)
  \o (IF dims # <<>>
      THEN <<DimensionLabel \o <<" ", "=", " ">> \o PyList(dims), Aggregation>>
      ELSE <<>>)
  \o <<text>>

\* a faulty variant: the parts joined and trimmed, the whitespace runs kept
AssembleDirective_NoCollapse(conds, selected, dims, text) ==
  Strip(Join(FinalParts(conds, selected, dims, text), <<" ">>))

\* lines 397-409
AssembleDirective(conds, selected, dims, text) ==
  Strip(CollapseSpaces(Join(FinalParts(conds, selected, dims, text), <<" ">>)))

(***************************************************************************)
(* process(raw_prompt), one action per numbered section of the function.   *)
(***************************************************************************)
\* lines 293-319
Normalize ==
  /\ pc = "normalize"
  /\ IF raw_prompt = <<>>
     THEN /\ final' = <<>>
          /\ pc' = "returned"
          /\ UNCHANGED <<prompt, conditions, selected_columns, dimension_columns>>
     ELSE /\ prompt' = SubstituteSynonyms(raw_prompt)
          /\ conditions' = <<>>
          /\ selected_columns' = <<>>
          /\ dimension_columns' = <<>>
          /\ pc' = "dimension"
          /\ UNCHANGED final
  /\ UNCHANGED <<raw_prompt, device_matches, respVars, shown, calls>>

\* lines 325-341
DetectDimensions ==
  /\ pc = "dimension"
  /\ dimension_columns' = DetectedDimensions(raw_prompt)
  /\ prompt' = RemoveDimension(dimension_floor_words, raw_prompt,
                 RemoveDimension(dimension_device_words, raw_prompt,
                   RemoveDimension(dimension_ut_words, raw_prompt, prompt)))
  /\ pc' = "floor"
  /\ UNCHANGED <<raw_prompt, conditions, selected_columns, device_matches,
                 final, respVars, shown, calls>>

\* lines 347-350
ExtractFloors ==
  /\ pc = "floor"
  /\ LET st == FloorLoop([prompt |-> prompt, conditions |-> conditions], 1)
     IN  prompt' = st.prompt /\ conditions' = st.conditions
  /\ pc' = "value"
  /\ UNCHANGED <<raw_prompt, selected_columns, dimension_columns,
                 device_matches, final, respVars, shown, calls>>

\* lines 352-356
ExtractValues ==
  /\ pc = "value"
  /\ LET st == UtLoop([prompt |-> prompt, conditions |-> conditions], 1)
     IN  prompt' = st.prompt /\ conditions' = st.conditions
  /\ pc' = "find_device"
  /\ UNCHANGED <<raw_prompt, selected_columns, dimension_columns,
                 device_matches, final, respVars, shown, calls>>

\* lines 358-361
FindDevices ==
  /\ pc = "find_device"
  /\ device_matches' = DeviceMatches(prompt)
  /\ pc' = "remove_device"
  /\ UNCHANGED <<raw_prompt, prompt, conditions, selected_columns,
                 dimension_columns, final, respVars, shown, calls>>

\* lines 363-365
RemoveDevices ==
  /\ pc = "remove_device"
  /\ LET st == DeviceLoop([prompt |-> prompt, conditions |-> conditions],
                          device_matches, 1)
     IN  prompt' = st.prompt /\ conditions' = st.conditions
  /\ pc' = "column"
  /\ UNCHANGED <<raw_prompt, selected_columns, dimension_columns,
                 device_matches, final, respVars, shown, calls>>

\* lines 371-374
SelectColumns ==
  /\ pc = "column"
  /\ LET st == SelectLoop([prompt |-> prompt, selected |-> selected_columns], 1)
     IN  prompt' = st.prompt /\ selected_columns' = st.selected
  /\ pc' = "command"
  /\ UNCHANGED <<raw_prompt, conditions, dimension_columns, device_matches,
                 final, respVars, shown, calls>>

\* lines 381-391
Standardize ==
  /\ pc = "command"
  /\ prompt' = StandardizeCommand(prompt)
  /\ pc' = "assemble"
  /\ UNCHANGED <<raw_prompt, conditions, selected_columns, dimension_columns,
                 device_matches, final, respVars, shown, calls>>

\* lines 397-409
Assemble ==
  /\ pc = "assemble"
  /\ final' = AssembleDirective(conditions, selected_columns,
                                dimension_columns, prompt)
  /\ pc' = "returned"
  /\ UNCHANGED <<raw_prompt, prompt, conditions, selected_columns,
                 dimension_columns, device_matches, respVars, shown, calls>>

Process ==
  \/ Normalize
  \/ DetectDimensions
  \/ ExtractFloors
  \/ ExtractValues
  \/ FindDevices
  \/ RemoveDevices
  \/ SelectColumns
  \/ Standardize
  \/ Assemble

(***************************************************************************)
(* SmartResponseEngine.  A table is a sequence of columns                  *)
(* [name, numeric, values]; a number is an integer count of thousandths.   *)
(* A mean, maximum or minimum is a float [nan, v]: NaN, or the number v.   *)
(***************************************************************************)
NaN == [nan |-> TRUE, v |-> 0]
Float(x) == [nan |-> FALSE, v |-> x]

PlanMarker  == <<"k_dang", "k_cho", "k_gye", "k_hoek">>
RealMarker  == <<"k_sil", "k_je", "k_si", "k_gong">>
TotalColumn == COLUMN_SYNONYMS[9].target
RealColumn  == COLUMN_SYNONYMS[7].target
NonPrefabColumns ==
  <<COLUMN_SYNONYMS[4].target, COLUMN_SYNONYMS[5].target, COLUMN_SYNONYMS[8].target>>
PrefabKey ==
  <<"k_sa", "k_jeon", "k_je", "k_jak", "_", "k_bi", "k_jin", "k_haeng", "_",
    "k_bi", "k_gyo">>
TrendMore  == <<"k_si", "k_gong", "k_i", " ", "k_gye", "k_hoek", "k_bo", "k_da",
                " ", "k_manh", "k_eum">>
TrendLess  == <<"k_si", "k_gong", "k_i", " ", "k_gye", "k_hoek", "k_bo", "k_da",
                " ", "k_jeok", "k_eum">>
TrendEqual == <<"k_gye", "k_hoek", "k_gwa", " ", "k_dong", "k_il">>

\* lines 420-425: a tagged dict, or a DataFrame
is_dataframe(res) == res.kind \in {"tagged", "frame"}

RECURSIVE SumSeq(_)
SumSeq(s) == IF s = <<>> THEN 0 ELSE Head(s) + SumSeq(Tail(s))
MaxSeq(s) == CHOOSE x \in {s[i] : i \in DOMAIN s} : \A i \in DOMAIN s : s[i] <= x
MinSeq(s) == CHOOSE x \in {s[i] : i \in DOMAIN s} : \A i \in DOMAIN s : x <= s[i]

\* the integer nearest to n / d (d > 0), a tie going to the even one
RoundDiv(n, d) ==
  LET q == n \div d
      r == n % d
  IN  IF 2 * r < d THEN q
      ELSE IF 2 * r > d THEN q + 1
      ELSE IF q % 2 = 0 THEN q ELSE q + 1

\* round(x, 2) and round(x, 1) of a number of thousandths
Round2(x) == 10 * RoundDiv(x, 10)
Round1(x) == 100 * RoundDiv(x, 100)

\* lines 428-441: the numeric columns in table order; of a column with no
\* row the sum is 0.0 and mean, max and min are NaN
analyze_dataframe(df) ==
  LET numeric == SelectSeq(df, LAMBDA c : c.numeric)
  IN  [k \in DOMAIN numeric |->
         LET v == numeric[k].values
         IN  [col  |-> numeric[k].name,
              sum  |-> 1000 * SumSeq(v),
              mean |-> IF v = <<>> THEN NaN
                       ELSE Float(RoundDiv(1000 * SumSeq(v), Len(v))),
              max  |-> IF v = <<>> THEN NaN ELSE Float(1000 * MaxSeq(v)),
              min  |-> IF v = <<>> THEN NaN ELSE Float(1000 * MinSeq(v))]]

RECURSIVE Digits(_)
Digits(n) ==
  IF n < 10 THEN <<ToString(n)>> ELSE Digits(n \div 10) \o <<ToString(n % 10)>>

\* lines 453-455, for a number: "10" for 10.00, "10.26" for 10.256
format_value(v) ==
  LET h == RoundDiv(v, 10)
      a == IF h < 0 THEN 0 - h ELSE h
      sign == IF h < 0 THEN <<"-">> ELSE <<>>
  IN  IF a % 100 = 0 THEN sign \o Digits(a \div 100)
      ELSE sign \o Digits(a \div 100) \o <<".">> \o Digits((a % 100) \div 10)
           \o Digits(a % 10)

\* int(rounded) of a NaN raises ValueError; the 합계 column formats its sum only
FormatRaises(stats) ==
  \E k \in DOMAIN stats :
    /\ stats[k].col # TotalColumn
    /\ stats[k].mean.nan \/ stats[k].max.nan \/ stats[k].min.nan

\* dict.get(col): the statistics of a column, if any
StatsOf(stats, col) == {stats[k] : k \in {j \in DOMAIN stats : stats[j].col = col}}
SumOf(stats, col) ==
  IF StatsOf(stats, col) = {} THEN 0 ELSE (CHOOSE e \in StatsOf(stats, col) : TRUE).sum

\* lines 458-459
TotalSum(stats) == SumOf(stats, TotalColumn)

EmptyDict == [k \in {} |-> 0]
\* d[key] = val
SetKey(d, key, val) ==
  [c \in DOMAIN d \cup {key} |-> IF c = key THEN val ELSE d[c]]
\* d.get(key, {})
GetKey(d, key) == IF key \in DOMAIN d THEN d[key] ELSE EmptyDict

\* lines 476-489 for one planned sum and one actual column
PlanFields(plan, real) ==
  [plan_to_real_ratio |-> 100 * RoundDiv(real * 1000, plan),
   plan_to_real_diff  |-> Round2(real - plan),
   plan_to_real_trend |-> IF real > plan THEN TrendMore
                          ELSE IF real < plan THEN TrendLess
                          ELSE TrendEqual]

\* lines 472-489, from column k on
RECURSIVE PlanLoop(_, _, _, _)
PlanLoop(stats, json, plan, k) ==
  IF k > Len(stats) THEN json
  ELSE LET other == stats[k].col
       IN  IF Contains(other, RealMarker) /\ plan > 0
           THEN PlanLoop(stats,
                         SetKey(json, other,
                                PlanFields(plan, stats[k].sum) @@ GetKey(json, other)),
                         plan, k + 1)
           ELSE PlanLoop(stats, json, plan, k + 1)

\* lines 464-468
BaseEntry(stats, values) ==
  IF TotalSum(stats) > 0
  THEN [sum |-> Round2(values.sum),
        ratio_to_total |-> 100 * RoundDiv(values.sum * 1000, TotalSum(stats))]
  ELSE [sum |-> Round2(values.sum)]

\* stats_json[col] = entry (line 491)
StoreEntry(json, col, entry) == SetKey(json, col, entry)

\* lines 463-491, from column k on
RECURSIVE PayloadLoop(_, _, _)
PayloadLoop(stats, json, k) ==
  IF k > Len(stats) THEN json
  ELSE LET col == stats[k].col
           paired == IF Contains(col, PlanMarker)
                     THEN PlanLoop(stats, json, stats[k].sum, 1)
                     ELSE json
       IN  PayloadLoop(stats, StoreEntry(paired, col, BaseEntry(stats, stats[k])),
                       k + 1)

\* lines 506-529; the fields carry the names of the code's variables and the
\* sentence of the comparison is its branch and the figure it quotes
PrefabComparison(stats) ==
  LET pre_fab_sum == SumOf(stats, RealColumn)
      non_pre_fab_sum == SumOf(stats, NonPrefabColumns[1])
                         + SumOf(stats, NonPrefabColumns[2])
                         + SumOf(stats, NonPrefabColumns[3])
      pre_ratio == 100 * RoundDiv(pre_fab_sum * 1000, non_pre_fab_sum)
  IN  [pre_fab_sum |-> Round2(pre_fab_sum),
       non_pre_fab_sum |-> Round2(non_pre_fab_sum),
       pre_ratio |-> pre_ratio,
       trend |-> IF pre_ratio > 100000
                 THEN [branch |-> "more", figure |-> Round2(pre_ratio \div 100)]
                 ELSE IF pre_ratio = 100000
                 THEN [branch |-> "same", figure |-> pre_ratio]
                 ELSE [branch |-> "less", figure |-> pre_ratio]]

NonPrefabSum(stats) ==
  SumOf(stats, NonPrefabColumns[1]) + SumOf(stats, NonPrefabColumns[2])
  + SumOf(stats, NonPrefabColumns[3])

\* lines 462-532: the "stats" object of the JSON sent to the service
BuildPayload(stats) ==
  LET json == PayloadLoop(stats, EmptyDict, 1)
  IN  IF NonPrefabSum(stats) > 0
      THEN SetKey(json, PrefabKey, PrefabComparison(stats))
      ELSE json

\* lines 446-451, 493-503 and 534: the table, per column its four cells
BuildStatsTable(stats) ==
  [col \in {stats[k].col : k \in DOMAIN stats} |->
     LET e == CHOOSE x \in StatsOf(stats, col) : TRUE
     IN  IF col = TotalColumn
         THEN [SUM |-> format_value(e.sum), MEAN |-> <<"-">>,
               MAX |-> <<"-">>, MIN |-> <<"-">>]
         ELSE [SUM |-> format_value(e.sum), MEAN |-> format_value(e.mean.v),
               MAX |-> format_value(e.max.v), MIN |-> format_value(e.min.v)]]

DataframeEuro == <<"k_de", "k_i", "k_teo", "k_peu", "k_re", "k_im", "k_eu", "k_ro">>
Boyeojwo      == <<"k_bo", "k_yeo", "k_jwo">>
\* lines 597-606: the patterns after the first one, all literal
remove_patterns ==
  <<<<"k_bo", "k_yeo", "k_jwo">>,
    <<"k_de", "k_i", "k_teo", "k_peu", "k_re", "k_im">>,
    <<"k_al", "k_ryeo", "k_jwo">>,
    <<"k_gu", "k_hae", "k_jwo">>,
    <<"k_ri", "k_seu", "k_teu", "k_hae", "k_jwo">>,
    <<"k_jeong", "k_ri", "k_hae", "k_jwo">>,
    <<"k_mok", "k_rok", "k_hwa", "k_hae", "k_jwo">>,
    <<"k_gyeol", "k_gwa", "k_neun">>,
    <<"k_hap", "k_eun">>,
    <<"k_chong", "k_hap", "k_eun">>>>
ClosingSentence ==
  <<" ", "emdash", " ", "k_de", "k_i", "k_teo", " ", "k_gi", "k_ban", "k_eu",
    "k_ro", " ", "A", "I", " ", "k_bun", "k_seok", "k_eul", " ", "k_tong",
    "k_hae", " ", "k_in", "k_sa", "k_i", "k_teu", "k_wa", " ", "k_hwal",
    "k_yong", "k_bang", "k_an", "k_eul", " ", "k_je", "k_gong", "k_hap",
    "k_ni", "k_da", ".">>

\* lines 612-613, from literal pattern k on; text comes in stripped, so the
\* strip() of a round that removes nothing changes nothing
RECURSIVE RemoveLoop(_, _)
RemoveLoop(text, k) ==
  IF k > Len(remove_patterns) THEN text
  ELSE IF Contains(text, remove_patterns[k])
  THEN RemoveLoop(Strip(Sub(text, PlainMatches(text, remove_patterns[k]),
                            <<>>)), k + 1)
  ELSE RemoveLoop(text, k + 1)

\* lines 589-618; the first pattern is 데이터프레임으로\s*보여줘
clean_prompt_for_summary(text) ==
  RemoveLoop(Strip(Sub(text, PhraseMatches(text, DataframeEuro, Boyeojwo),
                       <<>>)), 1)
  \o ClosingSentence

\* line 576: the placeholder, the sign "warning" standing for the emoji
FailurePrefix ==
  <<"warning", " ", "k_in", "k_sa", "k_i", "k_teu", " ", "k_saeng", "k_seong",
    " ", "k_sil", "k_pae", ":", " ">>
\* a faulty variant: the placeholder alone, the reason dropped
FailureInsight_NoReason(reason) == FailurePrefix
FailureInsight(reason) == FailurePrefix \o reason

\* lines 579-584: the two variable parts of the summary, between its three
\* fixed headings
SummaryText(directive, narrative) ==
  [request |-> clean_prompt_for_summary(directive), insight |-> Strip(narrative)]

(***************************************************************************)
(* The query handler (lines 665-715) around the two external services.     *)
(***************************************************************************)
NoResult == [kind |-> "none"]

Idle ==
  /\ raw_prompt = <<>> /\ prompt = <<>> /\ conditions = <<>>
  /\ selected_columns = <<>> /\ dimension_columns = <<>>
  /\ device_matches = <<>> /\ final = <<>>
  /\ result = NoResult /\ df_stats = <<>> /\ stats_json = EmptyDict
  /\ stats_df = EmptyDict /\ insight = <<>> /\ summary_text = <<>>
  /\ shown = "nothing" /\ calls = <<>>

\* lines 665-671: a blank question is refused, any other is preprocessed
Submit(user_query) ==
  /\ pc \in {"idle", "done", "stopped", "crashed"}
  /\ prompt' = <<>> /\ conditions' = <<>> /\ selected_columns' = <<>>
  /\ dimension_columns' = <<>> /\ device_matches' = <<>> /\ final' = <<>>
  /\ result' = NoResult /\ df_stats' = <<>> /\ stats_json' = EmptyDict
  /\ stats_df' = EmptyDict /\ insight' = <<>> /\ summary_text' = <<>>
  /\ IF Strip(user_query) = <<>>
     THEN raw_prompt' = <<>> /\ shown' = "warning" /\ calls' = <<>> /\ pc' = "idle"
     ELSE /\ raw_prompt' = user_query
          /\ shown' = "nothing"
          /\ calls' = <<"preprocess">>
          /\ pc' = "normalize"

\* line 675: the directive goes to the executor
CallExecutor ==
  /\ pc = "returned"
  /\ pc' = "executor"
  /\ calls' = Append(calls, "executor")
  /\ UNCHANGED <<procVars, respVars, shown>>

\* a faulty variant: the error is shown and the handler goes on, as it
\* would without st.stop()
ExecutorFails_NoStop ==
  /\ pc = "executor"
  /\ calls[Len(calls)] = "executor"
  /\ shown' = "analysis_failed"
  /\ pc' = "executor"
  /\ calls' = Append(calls, "executor_error")
  /\ UNCHANGED <<procVars, respVars>>

\* lines 677-679: st.error, st.stop
ExecutorFails ==
  /\ pc = "executor"
  /\ shown' = "analysis_failed"
  /\ pc' = "stopped"
  /\ calls' = Append(calls, "executor_error")
  /\ UNCHANGED <<procVars, respVars>>

\* lines 676-705 and 444-556: a table goes through the statistics and the
\* payload up to the call of the text-generation service; anything else is
\* written out as it is
ExecutorReturns(res) ==
  /\ pc = "executor"
  /\ result' = res
  /\ IF is_dataframe(res)
     THEN LET stats == analyze_dataframe(res.value)
          IN  /\ df_stats' = stats
              /\ IF FormatRaises(stats)
                 THEN /\ calls' = Append(calls, "statistics")
                      /\ shown' = "exception"
                      /\ pc' = "crashed"
                      /\ UNCHANGED <<stats_json, stats_df>>
                 ELSE /\ stats_json' = BuildPayload(stats)
                      /\ stats_df' = BuildStatsTable(stats)
                      /\ calls' = calls \o <<"statistics", "textgen">>
                      /\ shown' = "table"
                      /\ pc' = "textgen"
     ELSE /\ shown' = "value"
          /\ pc' = "done"
          /\ UNCHANGED <<df_stats, stats_json, stats_df, calls>>
  /\ UNCHANGED <<procVars, insight, summary_text>>

\* lines 563-573, 579-586 and 708-712
TextGenReturns(narrative) ==
  /\ pc = "textgen"
  /\ insight' = Strip(narrative)
  /\ summary_text' = SummaryText(final, Strip(narrative))
  /\ shown' = "report"
  /\ pc' = "done"
  /\ calls' = Append(calls, "textgen_ok")
  /\ UNCHANGED <<procVars, result, df_stats, stats_json, stats_df>>

\* lines 575-586 and 708-712
TextGenFails(reason) ==
  /\ pc = "textgen"
  /\ insight' = FailureInsight(reason)
  /\ summary_text' = SummaryText(final, FailureInsight(reason))
  /\ shown' = "report"
  /\ pc' = "done"
  /\ calls' = Append(calls, "textgen_error")
  /\ UNCHANGED <<procVars, result, df_stats, stats_json, stats_df>>

(***************************************************************************)
(* Inputs                                                                  *)
(***************************************************************************)
\* the strings made of at most n of the given pieces, written one after
\* the other
Questions(pieces, n) ==
  {Flatten(s) : s \in UNION {[1..k -> pieces] : k \in 0..n}}

Sp       == <<" ">>
W_1F     == <<"1", "F">>
W_1cheung == <<"1", "k_cheung">>
W_2F     == <<"2", "F">>
W_3cheung == <<"3", "k_cheung">>
W_A1B    == <<"A", "1", "B">>
W_mullyang == <<"k_mul", "k_ryang">>
W_allyeojwo == <<"k_al", "k_ryeo", "k_jwo">>
W_byeol  == <<"k_byeol">>

\* the handler's questions: a blank one, and three that reach every part
\* of the directive
UserQueries ==
  { <<" ", " ">>,
    W_2F \o Sp \o W_A1B \o Sp \o W_mullyang \o Sp \o W_allyeojwo,
    <<"k_jang", "k_bi", "k_byeol">> \o Sp \o <<"k_chong", "k_hap">>,
    <<"d", "r", "a", "i", "n">> }

MaxRows == 1
CellValues == {0, 100, 120}
PlanColumn == COLUMN_SYNONYMS[6].target
\* the columns a result table is made of: one of text and four numeric
NumericNames == {PlanColumn, RealColumn, TotalColumn, NonPrefabColumns[1]}
TextNames == {DeviceField}
ColumnSets ==
  { {DeviceField}, {PlanColumn, RealColumn}, {DeviceField, PlanColumn, RealColumn},
    {RealColumn, TotalColumn}, {RealColumn, NonPrefabColumns[1]} }

\* the orders of a set of column names
Orders(names) ==
  {o \in [1..Cardinality(names) -> names] :
     \A i, j \in DOMAIN o : i # j => o[i] # o[j]}

\* the tables of r rows over the column order o
TablesOf(o, r) ==
  LET numeric == {i \in DOMAIN o : o[i] \in NumericNames}
  IN  {[i \in DOMAIN o |->
          [name |-> o[i], numeric |-> i \in numeric,
           values |-> IF i \in numeric THEN cells[i] ELSE <<>>]] :
       cells \in [numeric -> [1..r -> CellValues]]}

Tables ==
  UNION {TablesOf(o, r) : o \in UNION {Orders(n) : n \in ColumnSets},
                          r \in 0..MaxRows}

\* what the executor returns: {type: "dataframe", value: table}, a table,
\* or a value that is no table
ExecutorResults ==
  {[kind |-> "tagged", value |-> t] : t \in Tables}
  \cup {[kind |-> "frame", value |-> t] : t \in Tables}
  \cup {[kind |-> "scalar", value |-> <<>>]}

Narratives == { <<" ", "o", "k", " ">> }
FailureReasons == { <<"t", "i", "m", "e", "o", "u", "t">>, <<"4", "0", "1">> }

(***************************************************************************)
(* Specifications                                                          *)
(***************************************************************************)
Init == pc = "idle" /\ Idle

Next ==
  \/ \E q \in UserQueries : Submit(q)
  \/ Process
  \/ CallExecutor
  \/ ExecutorFails
  \/ \E res \in ExecutorResults : ExecutorReturns(res)
  \/ \E n \in Narratives : TextGenReturns(n)
  \/ \E r \in FailureReasons : TextGenFails(r)

\* the query handler
Spec == Init /\ [][Next]_vars

\* process() alone, on every question of a set
ProcessInit(questions) ==
  /\ pc = "normalize"
  /\ raw_prompt \in questions
  /\ prompt = <<>> /\ conditions = <<>> /\ selected_columns = <<>>
  /\ dimension_columns = <<>> /\ device_matches = <<>> /\ final = <<>>
  /\ result = NoResult /\ df_stats = <<>> /\ stats_json = EmptyDict
  /\ stats_df = EmptyDict /\ insight = <<>> /\ summary_text = <<>>
  /\ shown = "nothing" /\ calls = <<>>

(***************************************************************************)
(* The response engine and the handler                                     *)
(***************************************************************************)
Range(s) == {s[i] : i \in DOMAIN s}
Last(s) == s[Len(s)]
PlanToRealKeys == {"plan_to_real_ratio", "plan_to_real_diff", "plan_to_real_trend"}

\* C4: whenever the statistics hold a planned column and an actual column,
\* in any order, the payload entry of the actual column carries
\* plan_to_real_ratio = actual / planned * 100 to one decimal,
\* plan_to_real_diff = actual - planned and the trend of the sign of the difference if the
\* planned sum is above 0, and none of the three fields otherwise
C4_PlanToReal ==
  pc = "textgen" =>
    \A p, a \in DOMAIN df_stats :
      (Contains(df_stats[p].col, PlanMarker) /\ Contains(df_stats[a].col, RealMarker)) =>
        LET plan  == df_stats[p].sum
            real  == df_stats[a].sum
            entry == stats_json[df_stats[a].col]
        IN  IF plan > 0
            THEN /\ PlanToRealKeys \subseteq DOMAIN entry
                 /\ entry.plan_to_real_ratio * (plan \div 1000) - real * 100
                      \in (0 - 50 * (plan \div 1000))..(50 * (plan \div 1000))
                 /\ entry.plan_to_real_diff = real - plan
                 /\ entry.plan_to_real_trend =
                      (IF real > plan THEN TrendMore
                       ELSE IF real < plan THEN TrendLess ELSE TrendEqual)
            ELSE PlanToRealKeys \cap DOMAIN entry = {}

\* C5: when the call of the text-generation service fails, the question
\* still ends with a report: the summary carries the failure reason where
\* the narrative would be, and the statistics table is the one a
\* successful call leaves, a row of four cells for every numeric column
C5_FailureDegrades ==
  (pc = "done" /\ shown = "report") =>
    /\ stats_df = BuildStatsTable(analyze_dataframe(result.value))
    /\ DOMAIN stats_df =
         {result.value[i].name : i \in {j \in DOMAIN result.value : result.value[j].numeric}}
    /\ \A col \in DOMAIN stats_df :
         \A cell \in {"SUM", "MEAN", "MAX", "MIN"} : stats_df[col][cell] # <<>>
    /\ Last(calls) = "textgen_error" =>
         /\ \E reason \in FailureReasons :
              /\ insight = FailurePrefix \o reason
              /\ Contains(summary_text.insight, reason)
         /\ summary_text.insight = insight

C5_Failed ==
  /\ pc = "done" /\ shown = "report" /\ Last(calls) = "textgen_error"
  /\ DOMAIN stats_df # {}

\* C6: the steps of a question run in the order preprocess, executor,
\* statistics, text generation; the text-generation service is called at
\* most once and only for a table; a failed executor call ends the
\* question with the analysis-failed error, before statistics and text
\* generation
StepOrder == <<"preprocess", "executor", "statistics", "textgen">>
Outcomes == {"executor_error", "textgen_ok", "textgen_error"}
Steps == SelectSeq(calls, LAMBDA c : c \notin Outcomes)
C6_StepOrder ==
  /\ Len(Steps) <= Len(StepOrder)
  /\ Steps = SubSeq(StepOrder, 1, Len(Steps))
  /\ "textgen" \in Range(calls) => is_dataframe(result)
  /\ "executor_error" \in Range(calls) =>
       /\ pc = "stopped" /\ shown = "analysis_failed"
       /\ calls = <<"preprocess", "executor", "executor_error">>
  /\ pc \in {"normalize", "dimension", "floor", "value", "find_device",
             "remove_device", "column", "command", "assemble", "returned"}
       => calls = <<"preprocess">>
  /\ pc = "executor" => calls = <<"preprocess", "executor">>

C6_FullRun ==
  pc = "done" /\ calls = StepOrder \o <<"textgen_ok">>

(***************************************************************************)
(* process() on the questions made of a few pieces                         *)
(***************************************************************************)
W_1   == <<"1">>
W_F   == <<"F">>
W_boyeojwo == <<"k_bo", "k_yeo", "k_jwo">>

\* word occurs in text as a word of its own (\bword\b)
Standalone(text, word) == Search(WordMatches(text, word, FALSE))
\* the number of entries of s equal to x
Count(s, x) == Cardinality({i \in DOMAIN s : s[i] = x})
\* process() has returned the directive of a question
Returned == pc = "returned" /\ raw_prompt # <<>>

\* questions about floors
MaxFloorPieces == 4
FloorPieces == {W_1F, W_1cheung, Sp, W_1, W_F, W_boyeojwo}
SpecFloor ==
  ProcessInit(Questions(FloorPieces, MaxFloorPieces)) /\ [][Process]_vars

\* C1: a question holding a floor label, or its alias, as a word of its
\* own gets exactly one Floor condition for the label, and the label is
\* no word of the remainder of the directive
C1_FloorExtracted ==
  Returned =>
    \A k \in DOMAIN FloorLabels :
      (\/ Standalone(raw_prompt, FloorLabels[k])
       \/ \E a \in DOMAIN VALUE_SYNONYMS[k].syns :
            Standalone(raw_prompt, VALUE_SYNONYMS[k].syns[a]))
      => /\ Count(conditions, Cond(FloorField, FloorLabels[k])) = 1
         /\ ~Standalone(prompt, FloorLabels[k])

\* questions about equipment codes
MaxDevicePieces == 5
W_A   == <<"A">>
W_1B  == <<"1", "B">>
DevicePieces == {W_A1B, Sp, W_A, W_1B}
SpecDevice ==
  ProcessInit(Questions(DevicePieces, MaxDevicePieces)) /\ [][Process]_vars

\* C2: no detected equipment code occurs in the remainder of the directive
C2_CodesRemoved ==
  Returned =>
    \A k \in DOMAIN device_matches : ~Contains(prompt, device_matches[k])

\* questions about dimensions
MaxDimensionPieces == 3
W_ut  == <<"u", "t">>
W_UT  == <<"U", "T">>
DimensionPieces == {W_ut, W_UT, W_byeol, Sp, Jangbi, <<"k_cheung">>}
SpecDimension ==
  ProcessInit(Questions(DimensionPieces, MaxDimensionPieces)) /\ [][Process]_vars

\* the three dimensions: the trigger words and the canonical column
Dimensions ==
  << [words |-> dimension_ut_words, column |-> UTField],
     [words |-> dimension_device_words, column |-> DeviceField],
     [words |-> dimension_floor_words, column |-> FloorField] >>
\* a trigger word of the dimension followed by the cue, in any case
Cued(text, d) ==
  \E w \in DOMAIN Dimensions[d].words :
    Search(DimensionMatches(text, Dimensions[d].words[w], TRUE))

\* C3: a question in which a trigger word of a dimension is followed by
\* the cue, in any case and with any whitespace between, gets the column of
\* the dimension in its dimension columns, and no trigger word followed by
\* the cue is left in the remainder
C3_DimensionDetected ==
  Returned =>
    \A d \in DOMAIN Dimensions :
      Cued(raw_prompt, d) =>
        /\ InSeq(Dimensions[d].column, dimension_columns)
        /\ ~Cued(prompt, d)

\* questions about utility values
MaxValuePieces == 3
W_chosunsu == VALUE_SYNONYMS[7].syns[1]
W_UPWDI    == VALUE_SYNONYMS[7].target
W_drain    == VALUE_SYNONYMS[5].syns[2]
W_PCW      == VALUE_SYNONYMS[8].target
ValuePieces == {W_chosunsu, W_UPWDI, W_drain, W_PCW, Sp, W_mullyang}
SpecValue ==
  ProcessInit(Questions(ValuePieces, MaxValuePieces)) /\ [][Process]_vars

\* word stands in text between whitespace or the ends of the text
Token(text, word) ==
  \E i \in 1..Len(text) :
    /\ LitAt(text, i, word, FALSE)
    /\ i = 1 \/ IsSpace(text[i - 1])
    /\ i + Len(word) > Len(text) \/ IsSpace(text[i + Len(word)])
\* the values of the table that are no floor label
UtValues == {k \in DOMAIN VALUE_SYNONYMS : ~InSeq(VALUE_SYNONYMS[k].target, FloorLabels)}

\* C8: a question holding a utility value of the table, or one of its
\* aliases, as a word of its own gets the UT condition of the value, and
\* the value is not left in the remainder of the directive
C8_ValueExtracted ==
  Returned =>
    \A k \in UtValues :
      (\/ Token(raw_prompt, VALUE_SYNONYMS[k].target)
       \/ \E a \in DOMAIN VALUE_SYNONYMS[k].syns :
            Token(raw_prompt, VALUE_SYNONYMS[k].syns[a]))
      => /\ InSeq(Cond(UTField, VALUE_SYNONYMS[k].target), conditions)
         /\ ~Contains(prompt, VALUE_SYNONYMS[k].target)

\* questions about output columns
MaxColumnPieces == 3
W_Floor == <<"F", "l", "o", "o", "r">>
W_chonghap == COLUMN_SYNONYMS[9].syns[1]
ColumnPieces == {W_UT, W_Floor, W_chonghap, Sp, W_mullyang}
SpecColumns ==
  ProcessInit(Questions(ColumnPieces, MaxColumnPieces)) /\ [][Process]_vars

\* the canonical columns in the key order of the table
ColumnKeys == [k \in DOMAIN COLUMN_SYNONYMS |-> COLUMN_SYNONYMS[k].target]
\* the identity columns, then the selected columns that are none of them,
\* in key order
ColumnUnion(selected) ==
  IdentityColumns
  \o SelectSeq(ColumnKeys,
                LAMBDA c : InSeq(c, selected) /\ ~InSeq(c, IdentityColumns))

\* C10: when columns were selected, they are in the key order of the
\* table, and the output-column clause of the directive lists the three
\* identity columns and then the selected columns, each column once
C10_OutputColumns ==
  (Returned /\ selected_columns # <<>>) =>
    /\ selected_columns = SelectSeq(ColumnKeys, LAMBDA c : InSeq(c, selected_columns))
    /\ Contains(final, OutputLabel \o <<" ", "=", " ">>
                        \o PyList(ColumnUnion(selected_columns)))

\* questions with every part of the directive and whitespace of both kinds
MaxAssemblePieces == 5
Tab == <<"\t">>
AssemblePieces == {W_1F \o Sp, Tab, W_UT, <<"k_cheung", "k_byeol">>, W_mullyang}
SpecAssemble ==
  ProcessInit(Questions(AssemblePieces, MaxAssemblePieces)) /\ [][Process]_vars

\* the clauses of the directive, in order, from what process() extracted,
\* and the remainder with its whitespace runs collapsed and its ends trimmed
Clauses ==
     (IF conditions # <<>>
      THEN <<Join(conditions, <<" ", "A", "N", "D", " ">>)>> ELSE <<>>)
  \o (IF selected_columns # <<>>
      THEN <<OutputLabel \o <<" ", "=", " ">>
             \o PyList(IdentityColumns \o selected_columns)>>
      ELSE <<>>)
  \o (IF dimension_columns # <<>>
      THEN <<DimensionLabel \o <<" ", "=", " ">> \o PyList(dimension_columns),
             Aggregation>>
      ELSE <<>>)
  \o (IF Strip(prompt) # <<>> THEN <<Strip(CollapseSpaces(prompt))>> ELSE <<>>)

\* C7: the directive of a question is its clauses in the order conditions,
\* output columns, dimension columns with the aggregation, remainder, each
\* present only if there is something to say, with one space between two
\* of them; it neither starts nor ends with whitespace and has no two
\* whitespace characters in a row; the empty question gets the empty
\* directive
C7_Assembly ==
  pc = "returned" =>
    /\ raw_prompt = <<>> => final = <<>>
    /\ raw_prompt # <<>> => final = Join(Clauses, <<" ">>)
    /\ final # <<>> => ~IsSpace(final[1]) /\ ~IsSpace(final[Len(final)])
    /\ \A i \in 1..(Len(final) - 1) : ~(IsSpace(final[i]) /\ IsSpace(final[i + 1]))
    /\ \A i \in 1..Len(final) : final[i] # "\t"

C7_AllClauses ==
  /\ Returned
  /\ conditions # <<>> /\ selected_columns # <<>> /\ dimension_columns # <<>>
  /\ \E i \in 1..(Len(prompt) - 1) : IsSpace(prompt[i]) /\ IsSpace(prompt[i + 1])

\* questions of floors, values and codes in any order
MaxOrderPieces == 4
W_X9Z == <<"X", "9", "Z">>
OrderPieces ==
  {W_1F \o Sp, W_3cheung \o Sp, W_drain \o Sp, W_PCW \o Sp, W_A1B \o Sp,
   W_X9Z \o Sp, W_A1B}
SpecOrder ==
  ProcessInit(Questions(OrderPieces, MaxOrderPieces)) /\ [][Process]_vars

\* a code word starts at position i of text: three or more ASCII letters
\* and digits, a letter and a digit among them, no word character before
\* or after
CodeAt(text, i) ==
  LET e == RunEnd(text, i)
      word == SubSeq(text, i, e - 1)
  IN  /\ IsAsciiAlnum(text[i])
      /\ i = 1 \/ ~IsWordChar(text[i - 1])
      /\ e > Len(text) \/ ~IsWordChar(text[e])
      /\ e - i >= 3
      /\ \E k \in DOMAIN word : IsAlpha(word[k])
      /\ \E k \in DOMAIN word : IsDigit(word[k])
\* the code words of text from left to right
CodeWords(text) ==
  LET starts == {i \in 1..Len(text) : CodeAt(text, i)}
  IN  [n \in 1..Cardinality(starts) |->
         LET i == CHOOSE k \in starts : Cardinality({j \in starts : j < k}) = n - 1
         IN  SubSeq(text, i, RunEnd(text, i) - 1)]

\* C9: the conditions are the Floor conditions in the order 1F, 2F, 3F,
\* then the UT conditions in the order of the value table, then one
\* condition for every code word of the working text, from left to right,
\* a code written k times giving k conditions
C9_ExtractionOrder ==
  /\ pc = "remove_device" => device_matches = CodeWords(prompt)
  /\ pc \in {"column", "command", "assemble", "returned"} =>
       conditions =
            SelectSeq([k \in DOMAIN FloorLabels |-> Cond(FloorField, FloorLabels[k])],
                      LAMBDA c : InSeq(c, conditions))
         \o SelectSeq([k \in DOMAIN VALUE_SYNONYMS |->
                         Cond(UTField, VALUE_SYNONYMS[k].target)],
                      LAMBDA c : InSeq(c, conditions))
         \o [k \in DOMAIN device_matches |-> Cond(DeviceField, device_matches[k])]

C9_Repeated ==
  /\ Returned
  /\ \E i, j \in DOMAIN device_matches : i < j /\ device_matches[i] = device_matches[j]
  /\ \E i, j \in DOMAIN conditions : i < j /\ conditions[i] = conditions[j]
  /\ InSeq(Cond(FloorField, FloorLabels[1]), conditions)
  /\ InSeq(Cond(UTField, VALUE_SYNONYMS[5].target), conditions)

\* questions of cues of the three dimensions in any order
MaxCuePieces == 4
W_gongjong == dimension_ut_words[2]
CuePieces ==
  {W_UT \o W_byeol, W_ut \o W_byeol, W_gongjong \o Sp \o W_byeol,
   Jangbi \o W_byeol, <<"k_cheung">> \o W_byeol, Sp}
SpecCues ==
  ProcessInit(Questions(CuePieces, MaxCuePieces)) /\ [][Process]_vars

\* the positions of text at which a trigger word of the dimension starts
\* that is followed by the cue
CuePositions(text, d) ==
  {i \in 1..Len(text) :
     \E w \in DOMAIN Dimensions[d].words :
       DimensionLen(text, i, Dimensions[d].words[w], TRUE) > 0}
Least(S) == CHOOSE i \in S : \A j \in S : i <= j

\* C11: the dimension columns hold each of UT, 장비명, Floor at most once
\* and in this order, however many cues of a dimension the question holds
\* and in whatever order they come, and the dimension clause of the
\* directive lists them so
C11_DimensionColumns ==
  /\ pc \in {"floor", "value", "find_device", "remove_device", "column",
             "command", "assemble", "returned"} =>
       dimension_columns =
         SelectSeq([d \in DOMAIN Dimensions |-> Dimensions[d].column],
                   LAMBDA c : InSeq(c, dimension_columns))
  /\ (Returned /\ dimension_columns # <<>>) =>
       Contains(final, DimensionLabel \o <<" ", "=", " ">>
                       \o PyList(dimension_columns) \o <<" ">> \o Aggregation)

C11_ManyCues ==
  /\ Returned
  /\ dimension_columns = <<UTField, DeviceField, FloorField>>
  /\ Cardinality(CuePositions(raw_prompt, 1)) >= 2
  /\ Least(CuePositions(raw_prompt, 3)) < Least(CuePositions(raw_prompt, 1))

\* questions of request phrases, whole and in parts, and recognized tokens
MaxCommandPieces == 3
W_bo     == <<"k_bo">>
W_yeojwo == <<"k_yeo", "k_jwo">>
CommandPieces ==
  {W_bo, W_yeojwo, W_boyeojwo, Sp, W_1cheung, W_drain, W_A1B}
SpecCommand ==
  ProcessInit(Questions(CommandPieces, MaxCommandPieces)) /\ [][Process]_vars

\* text holds a request phrase of line 386
HoldsRequest(text) == Search(AltMatches(text, command_patterns))
EndsWith(text, tail) ==
  /\ Len(text) >= Len(tail)
  /\ SubSeq(text, Len(text) - Len(tail) + 1, Len(text)) = tail
\* the floor and value names of the table, and their aliases
RecognizedNames ==
  UNION {{VALUE_SYNONYMS[k].target} \cup Range(VALUE_SYNONYMS[k].syns) :
           k \in DOMAIN VALUE_SYNONYMS}
\* the words of text that white space separates
TokenWords(text) ==
  {SubSeq(text, p[1], p[2]) : p \in
     {q \in (1..Len(text)) \X (1..Len(text)) :
        /\ q[1] <= q[2]
        /\ \A k \in q[1]..q[2] : ~IsSpace(text[k])
        /\ q[1] = 1 \/ IsSpace(text[q[1] - 1])
        /\ q[2] = Len(text) \/ IsSpace(text[q[2] + 1])}}
\* text is made of floor names, value names and equipment codes only
OnlyRecognized(text) ==
  /\ TokenWords(text) # {}
  /\ \A w \in TokenWords(text) :
       \/ w \in RecognizedNames
       \/ CodeAt(w, 1) /\ RunEnd(w, 1) > Len(w)

\* C12: the step of the command standardization appends the closing phrase
\* exactly when the text left by the column selection holds two Hangul
\* syllables or more; the text before the appended phrase then holds no
\* request phrase, and otherwise the text is left as it is; a question of
\* recognized floor, value and equipment-code tokens only has conditions
\* and gets no closing phrase
C12_ClosingPhrase ==
  [][pc = "command" =>
       /\ IF KoreanCount(prompt) >= 2
          THEN /\ EndsWith(prompt', StandardCommand)
               /\ ~HoldsRequest(SubSeq(prompt', 1,
                                       Len(prompt') - Len(StandardCommand)))
          ELSE prompt' = prompt
       /\ OnlyRecognized(raw_prompt) =>
            conditions # <<>> /\ prompt' = prompt]_vars

\* questions of the canonical column names that hold Hangul, and particles
MaxNamePieces == 2
HangulColumns == {k \in DOMAIN COLUMN_SYNONYMS : HasHangul(COLUMN_SYNONYMS[k].target)}
NamePieces ==
  {COLUMN_SYNONYMS[k].target : k \in HangulColumns} \cup Range(josa_list)
  \cup {Sp}
SpecNames ==
  ProcessInit(Questions(NamePieces, MaxNamePieces)) /\ [][Process]_vars

\* C13: for a question that is a canonical column name holding Hangul,
\* alone or followed by one particle, the text after the normalization is
\* the name itself, the column selection selects the name, and nothing of
\* the name is left in the text after the selection
C13_CanonicalFixed ==
  \A k \in HangulColumns :
    \A p \in {<<>>} \cup Range(josa_list) :
      raw_prompt = COLUMN_SYNONYMS[k].target \o p =>
        /\ pc = "dimension" => prompt = COLUMN_SYNONYMS[k].target
        /\ pc \in {"command", "assemble", "returned"} =>
             InSeq(COLUMN_SYNONYMS[k].target, selected_columns)
        /\ pc = "command" => Strip(prompt) = <<>>
====
